---- MODULE Spec2Model ----
(***************************************************************************)
(* Model of backend/models/faiss_store.py: FAISSBuilder, which loads an    *)
(* embedding matrix, builds a FAISS index of one of three variants,        *)
(* benchmarks it and publishes it (index file, metadata sidecar, "latest"  *)
(* symlink) into a save directory.                                         *)
(*                                                                         *)
(* The FAISS library, numpy, the clock and the file system are the         *)
(* environment: their calls are steps whose outcome (success, exception,   *)
(* clock reading, number of devices) is chosen nondeterministically.       *)
(* A matrix is [N, row0]: N rows, row0 the entries of its first row        *)
(* (D = Len(row0)); the rows after the first hold finite numbers.          *)
(***************************************************************************)
EXTENDS Integers, Sequences, FiniteSets, TLC

\* ---------------------------------------------------------------- bounds
MaxBuilds == 2      \* builders constructed in one behaviour
MaxTime == 2        \* distinct wall-clock seconds of strftime
MaxRows == 2        \* rows of a matrix in the build pipeline
MaxElapsed == 1     \* clock ticks measured around the benchmark loop
MaxSmallN == 130    \* dense range of row counts for the cluster heuristic
MaxDim == 3         \* columns of a matrix given to load_embeddings alone

\* ------------------------------------------------------ program constants
MaxClusters == 1024
MinClusters == 4
MaxSubvectors == 64
BitsPerCode == 8
NprobeDivisor == 10
HnswM == 16
EfConstruction == 200
EfSearch == 64
SampleCap == 100

Min(a, b) == IF a < b THEN a ELSE b
Max(a, b) == IF a > b THEN a ELSE b

\* ------------------------------------------------------------ str.lower()
UpperChars == <<"F", "L", "A", "T", "I", "V", "P", "Q", "H", "N", "S", "W">>
LowerChars == <<"f", "l", "a", "t", "i", "v", "p", "q", "h", "n", "s", "w">>

LowerChar(c) ==
  IF \E k \in DOMAIN UpperChars : UpperChars[k] = c
  THEN LowerChars[CHOOSE k \in DOMAIN UpperChars : UpperChars[k] = c]
  ELSE c

Lower(s) == [k \in DOMAIN s |-> LowerChar(s[k])]

FlatName == <<"f", "l", "a", "t">>
IvfpqName == <<"i", "v", "f", "p", "q">>
HnswName == <<"h", "n", "s", "w">>

\* the if / elif / else chain of build_index on self.index_type
VariantOfDefaultFlat(t) ==
  IF t = IvfpqName THEN "ivfpq"
  ELSE IF t = HnswName THEN "hnsw"
  ELSE "flat"

VariantOf(t) ==
  IF t = FlatName THEN "flat"
  ELSE IF t = IvfpqName THEN "ivfpq"
  ELSE IF t = HnswName THEN "hnsw"
  ELSE "unknown"

Variants == {"flat", "ivfpq", "hnsw"}

\* ------------------------------------------------- IVFPQ / HNSW heuristics
RECURSIVE SqrtSearch(_, _, _)
\* largest r in lo..hi with r * r <= n
SqrtSearch(n, lo, hi) ==
  IF lo = hi THEN lo
  ELSE LET mid == (lo + hi + 1) \div 2
       IN IF mid * mid <= n THEN SqrtSearch(n, mid, hi)
          ELSE SqrtSearch(n, lo, mid - 1)

\* int(np.sqrt(n)): the square root truncated towards zero (n < 2^31; the
\* search stays below 46341, whose square is the first above 2^31)
IntSqrt(n) == SqrtSearch(n, 0, Min(n, 46340))

\* round(sqrt(n)): the square root rounded to the nearest integer
RoundSqrt(n) ==
  LET r == IntSqrt(n) IN IF n - r * r > r THEN r + 1 ELSE r

NumClustersRounded(n) == Max(Min(RoundSqrt(n), MaxClusters), MinClusters)

NumClusters(n) == Max(Min(IntSqrt(n), MaxClusters), MinClusters)

NumSubvectors(d) == Min(MaxSubvectors, d \div 2)

Nprobe(clusters) == Max(1, clusters \div NprobeDivisor)

\* ------------------------------------------------------------- the matrix
NoMatrix == [N |-> 0, row0 |-> <<>>]

Dim(m) == Len(m.row0)

NonFinite == {"nan", "+inf", "-inf"}

\* np.nan_to_num on one entry
NanToNum(x) ==
  IF x = "nan" THEN "0"
  ELSE IF x = "+inf" THEN "fmax"
  ELSE IF x = "-inf" THEN "fmin"
  ELSE x

NanCount(m) == Cardinality({k \in DOMAIN m.row0 : m.row0[k] = "nan"})

\* load_embeddings: the matrix it returns for a stored matrix m
Sanitize(m) ==
  IF NanCount(m) > 0
  THEN [m EXCEPT !.row0 = [k \in DOMAIN m.row0 |-> NanToNum(m.row0[k])]]
  ELSE m

\* -------------------------------------------------------- the FAISS index
NoIndex == [kind |-> "none", onDevice |-> FALSE, is_trained |-> FALSE,
            ntotal |-> 0, nlist |-> 0, m |-> 0, nbits |-> 0,
            nprobe |-> 0, efConstruction |-> 0, efSearch |-> 0]

IndexFlatL2 == [NoIndex EXCEPT !.kind = "flat", !.is_trained = TRUE]

IndexIVFPQ(nlist, m, nbits) ==
  [NoIndex EXCEPT !.kind = "ivfpq", !.nlist = nlist, !.m = m,
                  !.nbits = nbits, !.nprobe = 1]

IndexHNSWFlat(M) ==
  [NoIndex EXCEPT !.kind = "hnsw", !.is_trained = TRUE, !.m = M,
                  !.efConstruction = 40, !.efSearch = 16]

\* hasattr(index, 'train'): every faiss.Index has a train method
HasTrainOnlyIvfpq(ix) == ix.kind = "ivfpq"

HasTrain(ix) == ix.kind \in Variants

\* hasattr(index, 'nprobe')
HasNprobe(ix) == ix.kind = "ivfpq"

\* hasattr(index, 'hnsw') and hasattr(index.hnsw, 'efSearch')
HasHnsw(ix) == ix.kind = "hnsw"

\* the values index.ntotal can have after the engine's add of n rows
AddOutcomes(n) == {n, n - 1}

\* -------------------------------------------------------- the file system
Times == 1..MaxTime

Absent == [status |-> "absent", build |-> 0, ntotal |-> 0]

NoLink == [present |-> FALSE, abs |-> FALSE, dirs |-> <<>>, variant |-> "none", ts |-> 0]

\* save_dir as given: an absolute path, a relative path, the working directory
SaveDirs == {[abs |-> TRUE, dirs |-> <<"srv", "out">>],
             [abs |-> FALSE, dirs |-> <<"out">>],
             [abs |-> FALSE, dirs |-> <<>>]}

\* os.path.join(save_dir, "faiss_<variant>_<ts>.index")
IndexPath(dir, v, ts) == [present |-> TRUE, abs |-> dir.abs, dirs |-> dir.dirs,
                          variant |-> v, ts |-> ts]

\* the directory a symlink's target names, for a link that lies in dir:
\* a relative target is taken relative to the directory of the link
LinkTargetDir(dir, link) ==
  IF link.abs THEN [abs |-> TRUE, dirs |-> link.dirs]
  ELSE [abs |-> dir.abs, dirs |-> dir.dirs \o link.dirs]

\* ------------------------------------------------------------------ state
VARIABLES
  save_dir,     \* self.save_dir, the directory every builder publishes into
  self,         \* the builder: data (stored matrix), index_type, use_gpu
  argType,      \* the index_type argument as given to __init__
  pc,           \* position of the running build
  err,          \* the exception that ended the build, "" if none
  embeddings,   \* the matrix load_embeddings returned
  index,        \* the index under construction / returned by build_index
  num_clusters, \* local of build_index
  calls,        \* engine operations invoked by build_index, in order
  bench,        \* locals of test_index: num_test, i, avg_time_ms, qps
  metadata,     \* the metadata dictionary of build
  timestamp,    \* local of save_index
  idxFiles,     \* faiss_<variant>_<ts>.index in the save directory
  metaFiles,    \* faiss_<variant>_<ts>_meta.pkl in the save directory
  latest,       \* faiss_<variant>_latest.index, a symlink
  now,          \* the wall clock, in seconds
  nbuilds,      \* builds started so far; the running build's number
  pre           \* the save directory as it was when the running build began

vars == <<save_dir, self, argType, pc, err, embeddings, index, num_clusters,
          calls, bench, metadata, timestamp, idxFiles, metaFiles, latest,
          now, nbuilds, pre>>

dirVars == <<idxFiles, metaFiles, latest>>

NoBuilder == [data |-> NoMatrix, exists |-> FALSE, index_type |-> <<>>, use_gpu |-> FALSE]

NoBench == [num_test |-> 0, i |-> 0,
            avg_time_ms |-> [num |-> 0, den |-> 1], qps |-> [num |-> 0, den |-> 1]]

NoMeta == [present |-> FALSE, index_type |-> "none", num_vectors |-> 0, dimension |-> 0,
           nprobe |-> 0, ef_search |-> 0]

EmptyDir == [idx |-> [v \in Variants |-> [t \in Times |-> Absent]],
             meta |-> [v \in Variants |-> [t \in Times |-> Absent]],
             latest |-> [v \in Variants |-> NoLink]]

Dir == [idx |-> idxFiles, meta |-> metaFiles, latest |-> latest]

\* the variant of the running build
Variant == VariantOf(self.index_type)

\* the index file a link in the save directory resolves to (Absent: dangling)
Resolve(link) ==
  IF link.present /\ LinkTargetDir(save_dir, link) = save_dir
  THEN idxFiles[link.variant][link.ts]
  ELSE Absent

\* os.path.exists(latest_path): follows the link
LatestExists(v) == Resolve(latest[v]).status # "absent"

\* a float as a fraction; it is positive iff num and den are of one sign
Positive(r) == r.num * r.den > 0

\* -------------------------------------------------------------- inputs
TypeInputs == {FlatName, <<"I", "V", "F", "P", "Q">>, <<"H", "n", "s", "w">>,
               <<"l", "s", "h">>, <<"L", "S", "H">>}

Rows == {<<"1", "0">>, <<"nan", "+inf">>}

\* the stored matrices of the pipeline; exists = FALSE is a missing file
DataFiles == {[exists |-> TRUE, m |-> [N |-> n, row0 |-> r]] : n \in 1..MaxRows, r \in Rows}
             \cup {[exists |-> FALSE, m |-> NoMatrix]}

Init ==
  /\ save_dir \in SaveDirs
  /\ self = NoBuilder
  /\ argType = <<>>
  /\ pc = "idle"
  /\ err = ""
  /\ embeddings = NoMatrix
  /\ index = NoIndex
  /\ num_clusters = 0
  /\ calls = <<>>
  /\ bench = NoBench
  /\ metadata = NoMeta
  /\ timestamp = 0
  /\ idxFiles = EmptyDir.idx
  /\ metaFiles = EmptyDir.meta
  /\ latest = EmptyDir.latest
  /\ now = 1
  /\ nbuilds = 0
  /\ pre = EmptyDir

Raise(e) ==
  /\ pc' = "failed"
  /\ err' = e

Call(op, n) == calls' = Append(calls, [op |-> op, n |-> n])

\* ---------------------------------------------------- __init__ and build
\* FAISSBuilder(data_path, save_dir, index_type, use_gpu)
NewBuilder(d, t, g) ==
  /\ pc \in {"idle", "done", "failed"}
  /\ self' = [data |-> d.m, exists |-> d.exists, index_type |-> Lower(t), use_gpu |-> g]
  /\ argType' = t
  /\ pc' = "ready"
  /\ err' = ""
  /\ embeddings' = NoMatrix
  /\ index' = NoIndex
  /\ num_clusters' = 0
  /\ calls' = <<>>
  /\ bench' = NoBench
  /\ metadata' = NoMeta
  /\ timestamp' = 0
  /\ UNCHANGED <<save_dir, idxFiles, metaFiles, latest, now, nbuilds, pre>>

\* build(): entry
BuildStart ==
  /\ pc = "ready"
  /\ pc' = "load"
  /\ nbuilds' = nbuilds + 1
  /\ pre' = Dir
  /\ UNCHANGED <<save_dir, self, argType, err, embeddings, index, num_clusters,
                 calls, bench, metadata, timestamp, idxFiles, metaFiles, latest, now>>

\* load_embeddings
LoadEmbeddings ==
  /\ pc = "load"
  /\ IF self.exists
     THEN /\ embeddings' = Sanitize(self.data)
          /\ pc' = "select"
          /\ err' = err
     ELSE /\ Raise("FileNotFoundError")
          /\ embeddings' = embeddings
  /\ UNCHANGED <<save_dir, self, argType, index, num_clusters, calls, bench,
                 metadata, timestamp, idxFiles, metaFiles, latest, now, nbuilds, pre>>

\* ------------------------------------------------------------ build_index
\* variant selection and construction of the index
SelectVariant ==
  /\ pc = "select"
  /\ LET v == VariantOf(self.index_type)
         n == embeddings.N
         d == Dim(embeddings)
     IN IF v = "flat"
        THEN /\ index' = IndexFlatL2
             /\ num_clusters' = num_clusters
             /\ Call("IndexFlatL2", 0)
             /\ pc' = "gpu"
             /\ err' = err
        ELSE IF v = "ivfpq"
        THEN /\ num_clusters' = NumClusters(n)
             /\ index' = IndexIVFPQ(NumClusters(n), NumSubvectors(d), BitsPerCode)
             /\ Call("IndexIVFPQ", 0)
             /\ pc' = "gpu"
             /\ err' = err
        ELSE IF v = "hnsw"
        THEN /\ index' = [IndexHNSWFlat(HnswM) EXCEPT !.efConstruction = EfConstruction]
             /\ num_clusters' = num_clusters
             /\ Call("IndexHNSWFlat", 0)
             /\ pc' = "gpu"
             /\ err' = err
        ELSE /\ Raise("ValueError")
             /\ UNCHANGED <<index, num_clusters, calls>>
  /\ UNCHANGED <<save_dir, self, argType, embeddings, bench, metadata, timestamp,
                 idxFiles, metaFiles, latest, now, nbuilds, pre>>

\* if self.use_gpu and faiss.get_num_gpus() > 0: index_cpu_to_gpu
MoveToGpu(ngpus) ==
  /\ pc = "gpu"
  /\ IF self.use_gpu /\ ngpus > 0
     THEN /\ index' = [index EXCEPT !.onDevice = TRUE]
          /\ Call("index_cpu_to_gpu", 0)
     ELSE UNCHANGED <<index, calls>>
  /\ pc' = "train"
  /\ UNCHANGED <<save_dir, self, argType, err, embeddings, num_clusters, bench,
                 metadata, timestamp, idxFiles, metaFiles, latest, now, nbuilds, pre>>

\* if hasattr(index, 'train'): index.train(embeddings)
Train ==
  /\ pc = "train"
  /\ IF HasTrain(index)
     THEN /\ index' = [index EXCEPT !.is_trained = TRUE]
          /\ Call("train", embeddings.N)
     ELSE UNCHANGED <<index, calls>>
  /\ pc' = "add"
  /\ UNCHANGED <<save_dir, self, argType, err, embeddings, num_clusters, bench,
                 metadata, timestamp, idxFiles, metaFiles, latest, now, nbuilds, pre>>

\* index.train raises: only an index that needs training computes anything
TrainFail ==
  /\ pc = "train"
  /\ HasTrain(index)
  /\ ~index.is_trained
  /\ Call("train", embeddings.N)
  /\ Raise("TrainError")
  /\ UNCHANGED <<save_dir, self, argType, embeddings, index, num_clusters, bench,
                 metadata, timestamp, idxFiles, metaFiles, latest, now, nbuilds, pre>>

\* index.add(embeddings)
AddVectors(nt) ==
  /\ pc = "add"
  /\ index.is_trained
  /\ nt \in AddOutcomes(embeddings.N)
  /\ index' = [index EXCEPT !.ntotal = nt]
  /\ Call("add", embeddings.N)
  /\ pc' = "params"
  /\ UNCHANGED <<save_dir, self, argType, err, embeddings, num_clusters, bench,
                 metadata, timestamp, idxFiles, metaFiles, latest, now, nbuilds, pre>>

\* index.add raises
AddFail ==
  /\ pc = "add"
  /\ Call("add", embeddings.N)
  /\ Raise("AddError")
  /\ UNCHANGED <<save_dir, self, argType, embeddings, index, num_clusters, bench,
                 metadata, timestamp, idxFiles, metaFiles, latest, now, nbuilds, pre>>

\* nprobe and efSearch
SetSearchParams ==
  /\ pc = "params"
  /\ index' = [index EXCEPT
                 !.nprobe = IF HasNprobe(index) THEN Nprobe(num_clusters) ELSE @,
                 !.efSearch = IF HasHnsw(index) THEN EfSearch ELSE @]
  /\ pc' = "to_cpu"
  /\ UNCHANGED <<save_dir, self, argType, err, embeddings, num_clusters, calls, bench,
                 metadata, timestamp, idxFiles, metaFiles, latest, now, nbuilds, pre>>

\* if self.use_gpu and faiss.get_num_gpus() > 0: index_gpu_to_cpu; return index
MoveToCpu(ngpus) ==
  /\ pc = "to_cpu"
  /\ IF self.use_gpu /\ ngpus > 0
     THEN /\ index' = [index EXCEPT !.onDevice = FALSE]
          /\ Call("index_gpu_to_cpu", 0)
     ELSE UNCHANGED <<index, calls>>
  /\ pc' = "test"
  /\ UNCHANGED <<save_dir, self, argType, err, embeddings, num_clusters, bench,
                 metadata, timestamp, idxFiles, metaFiles, latest, now, nbuilds, pre>>

\* ------------------------------------------------------------- test_index
\* num_test = min(100, len(embeddings)); start_time = time.time()
TestIndexBegin ==
  /\ pc = "test"
  /\ bench' = [NoBench EXCEPT !.num_test = Min(SampleCap, embeddings.N)]
  /\ pc' = "search"
  /\ UNCHANGED <<save_dir, self, argType, err, embeddings, index, num_clusters, calls,
                 metadata, timestamp, idxFiles, metaFiles, latest, now, nbuilds, pre>>

\* one round of the loop: index.search(test_vectors[i:i+1], k)
Search ==
  /\ pc = "search"
  /\ bench.i < bench.num_test
  /\ bench' = [bench EXCEPT !.i = @ + 1]
  /\ UNCHANGED <<save_dir, self, argType, pc, err, embeddings, index, num_clusters, calls,
                 metadata, timestamp, idxFiles, metaFiles, latest, now, nbuilds, pre>>

\* index.search raises
SearchFail ==
  /\ pc = "search"
  /\ bench.i < bench.num_test
  /\ bench' = [bench EXCEPT !.i = @ + 1]
  /\ Raise("SearchError")
  /\ UNCHANGED <<save_dir, self, argType, embeddings, index, num_clusters, calls,
                 metadata, timestamp, idxFiles, metaFiles, latest, now, nbuilds, pre>>

\* after the loop: total_time = end_time - start_time, measured in clock
\* ticks; avg_time_ms = (total_time / num_test) * 1000; qps = num_test / total_time
TestIndexFinish(elapsed) ==
  /\ pc = "search"
  /\ bench.i = bench.num_test
  /\ IF elapsed = 0
     THEN /\ bench' = [bench EXCEPT !.avg_time_ms = [num |-> elapsed * 1000, den |-> bench.num_test]]
          /\ Raise("ZeroDivisionError")
     ELSE /\ bench' = [bench EXCEPT !.avg_time_ms = [num |-> elapsed * 1000, den |-> bench.num_test],
                                    !.qps = [num |-> bench.num_test, den |-> elapsed]]
          /\ pc' = "metadata"
          /\ err' = err
  /\ UNCHANGED <<save_dir, self, argType, embeddings, index, num_clusters, calls,
                 metadata, timestamp, idxFiles, metaFiles, latest, now, nbuilds, pre>>

\* ------------------------------------------------- build: the metadata dict
BuildMetadata ==
  /\ pc = "metadata"
  /\ metadata' = [present |-> TRUE,
                  index_type |-> Variant,
                  num_vectors |-> embeddings.N,
                  dimension |-> Dim(embeddings),
                  nprobe |-> IF HasNprobe(index) THEN index.nprobe ELSE 0,
                  ef_search |-> IF HasHnsw(index) THEN index.efSearch ELSE 0]
  /\ pc' = "save"
  /\ UNCHANGED <<save_dir, self, argType, err, embeddings, index, num_clusters, calls, bench,
                 timestamp, idxFiles, metaFiles, latest, now, nbuilds, pre>>

\* ------------------------------------------------------------- save_index
\* timestamp = time.strftime(...), the wall clock read to the second: t is
\* the second it shows, not before the second of an earlier reading
SaveBegin(t) ==
  /\ pc = "save"
  /\ t \in Times
  /\ t >= now
  /\ now' = t
  /\ timestamp' = t
  /\ pc' = "write_index"
  /\ UNCHANGED <<save_dir, self, argType, err, embeddings, index, num_clusters, calls, bench,
                 metadata, idxFiles, metaFiles, latest, nbuilds, pre>>

\* faiss.write_index opens index_path for writing: the file is created or
\* truncated, and holds a part of the new index until the write ends
WriteIndexOpen ==
  /\ pc = "write_index"
  /\ idxFiles' = [idxFiles EXCEPT ![Variant][timestamp] =
                    [status |-> "partial", build |-> nbuilds, ntotal |-> 0]]
  /\ pc' = "write_index_body"
  /\ UNCHANGED <<save_dir, self, argType, err, embeddings, index, num_clusters, calls, bench,
                 metadata, timestamp, metaFiles, latest, now, nbuilds, pre>>

\* faiss.write_index returns; only a host index can be serialized
WriteIndexFinish ==
  /\ pc = "write_index_body"
  /\ ~index.onDevice
  /\ idxFiles' = [idxFiles EXCEPT ![Variant][timestamp] =
                    [status |-> "complete", build |-> nbuilds, ntotal |-> index.ntotal]]
  /\ pc' = "write_meta"
  /\ UNCHANGED <<save_dir, self, argType, err, embeddings, index, num_clusters, calls, bench,
                 metadata, timestamp, metaFiles, latest, now, nbuilds, pre>>

\* faiss.write_index raises after it opened the file
WriteIndexFail ==
  /\ pc = "write_index_body"
  /\ Raise("WriteIndexError")
  /\ UNCHANGED <<save_dir, self, argType, embeddings, index, num_clusters, calls, bench,
                 metadata, timestamp, idxFiles, metaFiles, latest, now, nbuilds, pre>>

\* if metadata: open(metadata_path, 'wb')
WriteMetaOpen ==
  /\ pc = "write_meta"
  /\ IF metadata.present
     THEN /\ metaFiles' = [metaFiles EXCEPT ![Variant][timestamp] =
                             [status |-> "partial", build |-> nbuilds, ntotal |-> 0]]
          /\ pc' = "write_meta_body"
     ELSE /\ metaFiles' = metaFiles
          /\ pc' = "exists"
  /\ UNCHANGED <<save_dir, self, argType, err, embeddings, index, num_clusters, calls, bench,
                 metadata, timestamp, idxFiles, latest, now, nbuilds, pre>>

\* pickle.dump(metadata, f) and the close of the file
WriteMetaFinish ==
  /\ pc = "write_meta_body"
  /\ metaFiles' = [metaFiles EXCEPT ![Variant][timestamp] =
                     [status |-> "complete", build |-> nbuilds, ntotal |-> metadata.num_vectors]]
  /\ pc' = "exists"
  /\ UNCHANGED <<save_dir, self, argType, err, embeddings, index, num_clusters, calls, bench,
                 metadata, timestamp, idxFiles, latest, now, nbuilds, pre>>

\* pickle.dump raises after the file was opened
WriteMetaFail ==
  /\ pc = "write_meta_body"
  /\ Raise("WriteMetaError")
  /\ UNCHANGED <<save_dir, self, argType, embeddings, index, num_clusters, calls, bench,
                 metadata, timestamp, idxFiles, metaFiles, latest, now, nbuilds, pre>>

\* if os.path.exists(latest_path)
CheckLatest ==
  /\ pc = "exists"
  /\ pc' = IF LatestExists(Variant) THEN "remove" ELSE "symlink"
  /\ UNCHANGED <<save_dir, self, argType, err, embeddings, index, num_clusters, calls, bench,
                 metadata, timestamp, idxFiles, metaFiles, latest, now, nbuilds, pre>>

\* os.remove(latest_path)
RemoveLatest ==
  /\ pc = "remove"
  /\ latest' = [latest EXCEPT ![Variant] = NoLink]
  /\ pc' = "symlink"
  /\ UNCHANGED <<save_dir, self, argType, err, embeddings, index, num_clusters, calls, bench,
                 metadata, timestamp, idxFiles, metaFiles, now, nbuilds, pre>>

\* os.remove raises
RemoveFail ==
  /\ pc = "remove"
  /\ Raise("RemoveError")
  /\ UNCHANGED <<save_dir, self, argType, embeddings, index, num_clusters, calls, bench,
                 metadata, timestamp, idxFiles, metaFiles, latest, now, nbuilds, pre>>

\* os.symlink(index_path, latest_path); return index_path.
\* It raises FileExistsError when latest_path is still there.
Symlink ==
  /\ pc = "symlink"
  /\ IF latest[Variant].present
     THEN /\ Raise("FileExistsError")
          /\ latest' = latest
     ELSE /\ latest' = [latest EXCEPT ![Variant] = IndexPath(save_dir, Variant, timestamp)]
          /\ pc' = "done"
          /\ err' = err
  /\ UNCHANGED <<save_dir, self, argType, embeddings, index, num_clusters, calls, bench,
                 metadata, timestamp, idxFiles, metaFiles, now, nbuilds, pre>>

\* os.symlink raises for a reason of the file system
SymlinkFail ==
  /\ pc = "symlink"
  /\ ~latest[Variant].present
  /\ Raise("SymlinkError")
  /\ UNCHANGED <<save_dir, self, argType, embeddings, index, num_clusters, calls, bench,
                 metadata, timestamp, idxFiles, metaFiles, latest, now, nbuilds, pre>>

\* --------------------------------------------------------- specifications
\* the steps of build_index
BuildIndexStep ==
  \/ SelectVariant
  \/ \E ngpus \in 0..1 : MoveToGpu(ngpus)
  \/ Train
  \/ TrainFail
  \/ \E nt \in AddOutcomes(embeddings.N) : AddVectors(nt)
  \/ AddFail
  \/ SetSearchParams
  \/ \E ngpus \in 0..1 : MoveToCpu(ngpus)

\* the steps of test_index
TestIndexStep ==
  \/ TestIndexBegin
  \/ Search
  \/ SearchFail
  \/ \E elapsed \in 0..MaxElapsed : TestIndexFinish(elapsed)

\* the steps of save_index
SaveIndexStep ==
  \/ \E t \in Times : SaveBegin(t)
  \/ WriteIndexOpen
  \/ WriteIndexFinish
  \/ WriteIndexFail
  \/ WriteMetaOpen
  \/ WriteMetaFinish
  \/ WriteMetaFail
  \/ CheckLatest
  \/ RemoveLatest
  \/ RemoveFail
  \/ Symlink
  \/ SymlinkFail

\* the steps of build
BuildStep ==
  \/ BuildStart
  \/ LoadEmbeddings
  \/ BuildIndexStep
  \/ TestIndexStep
  \/ BuildMetadata
  \/ SaveIndexStep

Construct == \E d \in DataFiles, t \in TypeInputs, g \in BOOLEAN : NewBuilder(d, t, g)

\* Spec: up to MaxBuilds builders, one after the other, each constructed and
\* built, publishing into one save directory that starts empty
Next ==
  \/ (nbuilds < MaxBuilds /\ Construct)
  \/ BuildStep

Spec == Init /\ [][Next]_vars

\* SpecBuild: one builder constructed and built over a save directory that is
\* empty or holds what one earlier, successful build (number 1) published
Published(dir, v, t, n) ==
  [idx |-> [EmptyDir.idx EXCEPT ![v][t] = [status |-> "complete", build |-> 1, ntotal |-> n]],
   meta |-> [EmptyDir.meta EXCEPT ![v][t] = [status |-> "complete", build |-> 1, ntotal |-> n]],
   latest |-> [EmptyDir.latest EXCEPT ![v] = IndexPath(dir, v, t)]]

InitBuild ==
  /\ save_dir \in SaveDirs
  /\ now \in Times
  /\ \E d \in {EmptyDir} \cup {Published(save_dir, v, t, 1) : v \in Variants, t \in 1..now} :
       /\ idxFiles = d.idx
       /\ metaFiles = d.meta
       /\ latest = d.latest
       /\ pre = d
  /\ nbuilds = 1
  /\ self = NoBuilder
  /\ argType = <<>>
  /\ pc = "idle"
  /\ err = ""
  /\ embeddings = NoMatrix
  /\ index = NoIndex
  /\ num_clusters = 0
  /\ calls = <<>>
  /\ bench = NoBench
  /\ metadata = NoMeta
  /\ timestamp = 0

NextBuild ==
  \/ (pc = "idle" /\ Construct)
  \/ BuildStep

SpecBuild == InitBuild /\ [][NextBuild]_vars

\* SpecBuildIndex: build_index called on a loaded matrix. The row counts are
\* a dense range and values around the caps of the cluster heuristic.
RowCounts == (1..MaxSmallN) \cup {1000, 1048575, 1048576, 1048577, 1050625, 4000000}

InitBuildIndex ==
  /\ save_dir \in {d \in SaveDirs : d.abs}
  /\ \E t \in TypeInputs, g \in BOOLEAN, n \in RowCounts :
       /\ self = [data |-> [N |-> n, row0 |-> <<"1", "0">>], exists |-> TRUE,
                  index_type |-> Lower(t), use_gpu |-> g]
       /\ argType = t
       /\ embeddings = Sanitize([N |-> n, row0 |-> <<"1", "0">>])
  /\ pc = "select"
  /\ err = ""
  /\ index = NoIndex
  /\ num_clusters = 0
  /\ calls = <<>>
  /\ bench = NoBench
  /\ metadata = NoMeta
  /\ timestamp = 0
  /\ idxFiles = EmptyDir.idx
  /\ metaFiles = EmptyDir.meta
  /\ latest = EmptyDir.latest
  /\ now = 1
  /\ nbuilds = 1
  /\ pre = EmptyDir

SpecBuildIndex == InitBuildIndex /\ [][BuildIndexStep]_vars

\* SpecProbe: test_index called on a populated host index and its matrix,
\* with row counts on both sides of the sample cap
ProbeCounts == {1, 2, SampleCap - 1, SampleCap, SampleCap + 1, 2 * SampleCap}

Populated(v, n) ==
  IF v = "flat" THEN [IndexFlatL2 EXCEPT !.ntotal = n]
  ELSE IF v = "ivfpq"
  THEN [IndexIVFPQ(NumClusters(n), NumSubvectors(2), BitsPerCode) EXCEPT
          !.is_trained = TRUE, !.ntotal = n, !.nprobe = Nprobe(NumClusters(n))]
  ELSE [IndexHNSWFlat(HnswM) EXCEPT
          !.efConstruction = EfConstruction, !.efSearch = EfSearch, !.ntotal = n]

InitProbe ==
  /\ save_dir \in {d \in SaveDirs : d.abs}
  /\ \E v \in Variants, n \in ProbeCounts :
       /\ self = [data |-> [N |-> n, row0 |-> <<"1", "0">>], exists |-> TRUE,
                  index_type |-> Lower(IF v = "flat" THEN FlatName
                                       ELSE IF v = "ivfpq" THEN IvfpqName ELSE HnswName),
                  use_gpu |-> FALSE]
       /\ argType = self.index_type
       /\ embeddings = [N |-> n, row0 |-> <<"1", "0">>]
       /\ index = Populated(v, n)
       /\ num_clusters = index.nlist
  /\ pc = "test"
  /\ err = ""
  /\ calls = <<>>
  /\ bench = NoBench
  /\ metadata = NoMeta
  /\ timestamp = 0
  /\ idxFiles = EmptyDir.idx
  /\ metaFiles = EmptyDir.meta
  /\ latest = EmptyDir.latest
  /\ now = 1
  /\ nbuilds = 1
  /\ pre = EmptyDir

SpecProbe == InitProbe /\ [][TestIndexStep]_vars

\* SpecLoad: load_embeddings called on every one-row matrix of up to MaxDim
\* columns over the entry values, and on a missing file
Entries == {"0", "1", "nan", "+inf", "-inf"}

StoredMatrices == UNION {{[N |-> 1, row0 |-> r] : r \in [1..d -> Entries]} : d \in 1..MaxDim}

InitLoad ==
  /\ save_dir \in {d \in SaveDirs : d.abs}
  /\ \E f \in {[exists |-> TRUE, m |-> m] : m \in StoredMatrices}
              \cup {[exists |-> FALSE, m |-> NoMatrix]} :
       self = [data |-> f.m, exists |-> f.exists, index_type |-> FlatName, use_gpu |-> FALSE]
  /\ argType = FlatName
  /\ pc = "load"
  /\ err = ""
  /\ embeddings = NoMatrix
  /\ index = NoIndex
  /\ num_clusters = 0
  /\ calls = <<>>
  /\ bench = NoBench
  /\ metadata = NoMeta
  /\ timestamp = 0
  /\ idxFiles = EmptyDir.idx
  /\ metaFiles = EmptyDir.meta
  /\ latest = EmptyDir.latest
  /\ now = 1
  /\ nbuilds = 1
  /\ pre = EmptyDir

SpecLoad == InitLoad /\ [][LoadEmbeddings]_vars

\* ================================================================= claims
SupportedNames == {FlatName, IvfpqName, HnswName}

TrainCalls == {k \in DOMAIN calls : calls[k].op = "train"}

AddCalls == {k \in DOMAIN calls : calls[k].op = "add"}

ToGpuCalls == {k \in DOMAIN calls : calls[k].op = "index_cpu_to_gpu"}

\* build_index has returned its index
Returned == pc = "test"

\* C1 (as claimed, for a pointer whose target file is there): in every state
\* of the save directory, also in the middle of save_index and when two builds
\* of one variant fall into one second, the index file a latest pointer
\* resolves to is fully written, and its metadata sidecar is fully written
\* and comes from the same build.
C1_LatestResolvesToWrittenPair ==
  \A v \in Variants :
    LatestExists(v) =>
      /\ Resolve(latest[v]).status = "complete"
      /\ metaFiles[latest[v].variant][latest[v].ts].status = "complete"
      /\ metaFiles[latest[v].variant][latest[v].ts].build = Resolve(latest[v]).build

\* C2 (as claimed): when build() has failed, at whatever stage, every latest
\* pointer is what it was when the build began, and every index file and
\* metadata file that was there when the build began is unchanged.
C2_FailedBuildChangesNothing ==
  pc = "failed" =>
    /\ latest = pre.latest
    /\ \A v \in Variants, t \in Times :
         /\ pre.idx[v][t].status # "absent" => idxFiles[v][t] = pre.idx[v][t]
         /\ pre.meta[v][t].status # "absent" => metaFiles[v][t] = pre.meta[v][t]

\* C3 (as claimed, for builds whose add populated every row): a build never
\* fails because the pointer of an earlier build is in its way, and when a
\* build has succeeded the latest pointer of its variant resolves to the
\* index file this build wrote, fully written, with ntotal = N of this build.
C3_LatestIsThisBuild ==
  /\ err # "FileExistsError"
  /\ (pc = "done" /\ index.ntotal = embeddings.N) =>
       /\ latest[Variant].present
       /\ latest[Variant].ts = timestamp
       /\ Resolve(latest[Variant]).status = "complete"
       /\ Resolve(latest[Variant]).build = nbuilds
       /\ Resolve(latest[Variant]).ntotal = embeddings.N

C5_ClustersTruncated ==
  index.kind = "ivfpq" =>
    LET c == index.nlist
        n == embeddings.N
    IN /\ c \in MinClusters..MaxClusters
       /\ \/ c * c <= n /\ n < (c + 1) * (c + 1)
          \/ c = MinClusters /\ n < c * c
          \/ c = MaxClusters /\ n >= c * c
       /\ n = 1000 => c = 31
       /\ n = 5 => c = 4

C5_Witness ==
  /\ index.kind = "ivfpq"
  /\ embeddings.N = 1000
  /\ index.nlist = 31

\* C5 (as claimed): the cluster count is clamp(round(sqrt(N)), 4, 1024);
\* N = 1000 gives 32 clusters and N = 5 gives 4.
C5_ClustersRounded ==
  index.kind = "ivfpq" =>
    /\ index.nlist = Max(Min(RoundSqrt(embeddings.N), MaxClusters), MinClusters)
    /\ embeddings.N = 1000 => index.nlist = 32
    /\ embeddings.N = 5 => index.nlist = 4

\* C6 (as claimed): test_index runs min(100, N) searches and, when none of
\* them fails, returns with avg_latency_ms > 0 and throughput_qps > 0 whatever
\* the elapsed time is; it fails only when a search fails.
C6_ProbeFailsOnlyOnSearch ==
  /\ pc \in {"search", "metadata"} => bench.num_test = Min(SampleCap, embeddings.N)
  /\ pc = "failed" => err = "SearchError"
  /\ pc = "metadata" =>
       /\ bench.i = Min(SampleCap, embeddings.N)
       /\ Positive(bench.avg_time_ms)
       /\ Positive(bench.qps)

\* C7 (as claimed): the matrix load_embeddings returns has no NaN entry and
\* no +Inf or -Inf entry.
C7_LoadedMatrixIsFinite ==
  pc = "select" => \A k \in DOMAIN embeddings.row0 : embeddings.row0[k] \notin NonFinite

C9_ReturnedIndexOnHost ==
  /\ Cardinality(ToGpuCalls) <= 1
  /\ \A g \in ToGpuCalls : \A k \in TrainCalls \cup AddCalls : g < k
  /\ Returned => ~index.onDevice

\* C10 (as claimed): build_index returns an index only if after add its
\* ntotal equals the number of rows N of the matrix.
C10_ReturnedIndexIsFull ==
  Returned => index.ntotal = embeddings.N
====
